---------------------------- MODULE Spec2Model ----------------------------
(***************************************************************************)
(* Model of the two recursive traversals of NLP-topic-modeling:            *)
(*   get_categorymembers  (category graph walk with depth/size pruning)    *)
(*   get_page_text / get_section_text / filter_by_keywords                 *)
(* src/functions.py and src/extract_wikipedia_data.py hold the same code   *)
(* for these functions; line numbers below refer to src/functions.py.      *)
(***************************************************************************)
EXTENDS Integers, Sequences, FiniteSets, TLC

VARIABLES
    \* ---- get_categorymembers ----
    members,                      \* category -> its categorymembers, in listing order
    n_pages_per_level_threshold,  \* None or Some(int)
    max_level,                    \* None or Some(int)
    stack,                        \* call stack of get_categorymembers frames
    pages,                        \* the accumulator list shared by all frames
    fetched,                      \* log: path of every category whose members were fetched
    status,                       \* "running" | "done" | "RecursionError" | "idle"
    \* ---- get_page_text / get_section_text ----
    page,                         \* the page: [sections |-> the top-level sections]
    keywords,                     \* None or Some(list of keywords)
    use_summary_if_empty,
    page_text,                    \* the list get_page_text builds
    s_idx,                        \* position of the loop over page.sections
    section_text_list,            \* the list one get_section_text call chain fills
    sstack,                       \* call stack of get_section_text frames
    visited,                      \* log: path of every section get_section_text ran on
    summary,                      \* None, or Some(page.summary) once it was read
    xstatus,                      \* "sections" | "in_section" | "done" | "idle"
    \* ---- filter_by_keywords ----
    f_text, f_keywords, f_result, f_status

cvars == <<members, n_pages_per_level_threshold, max_level, stack, pages,
           fetched, status>>
xvars == <<page, keywords, use_summary_if_empty, page_text, s_idx,
           section_text_list, sstack, visited, summary, xstatus>>
fvars == <<f_text, f_keywords, f_result, f_status>>
vars == <<cvars, xvars, fvars>>

-----------------------------------------------------------------------------
(* Python's None and an optional value.                                    *)
None == <<>>
Some(x) == <<x>>
IsNone(v) == v = <<>>
Val(v) == v[1]

(* Bounds of the model.                                                    *)
MaxEdges == 4          \* total number of category members in the graph
MaxThreshold == 2      \* largest finite n_pages_per_level_threshold tried
MaxLevel == 2          \* largest finite max_level tried
RecursionLimit == 4    \* interpreter recursion limit (frames), scaled down
MaxSections == 4       \* number of sections of a page, all depths together
MaxStrLen == 2         \* length of the strings filter_by_keywords is tried on

\* the variables of a component no call of which is running
TraverseIdle ==
    /\ members = <<>> /\ n_pages_per_level_threshold = None /\ max_level = None
    /\ stack = <<>> /\ pages = <<>> /\ fetched = <<>> /\ status = "idle"
ExtractIdle ==
    /\ page = <<>> /\ keywords = None /\ use_summary_if_empty = FALSE
    /\ page_text = <<>> /\ s_idx = 0 /\ section_text_list = <<>>
    /\ sstack = <<>> /\ visited = <<>> /\ summary = None /\ xstatus = "idle"
FilterIdle ==
    /\ f_text = <<>> /\ f_keywords = <<>> /\ f_result = FALSE /\ f_status = "idle"

-----------------------------------------------------------------------------
(* The category graph.                                                     *)
MAIN == 0
FILE == 6
CATEGORY == 14
Categories == {"A", "B", "C"}
Documents == {"d1", "d2"}
OtherPages == {"f"}
AllPages == Categories \cup Documents \cup OtherPages
Root == "A"

ns(pg) == IF pg \in Documents THEN MAIN
          ELSE IF pg \in Categories THEN CATEGORY ELSE FILE

Range(s) == {s[i] : i \in DOMAIN s}

\* categorymembers is a dict keyed by title: no page occurs twice in a listing
Listings(n) ==
    UNION {{s \in [1..k -> AllPages] : \A i, j \in 1..k : s[i] = s[j] => i = j}
           : k \in 0..n}

Thresholds == {None} \cup {Some(n) : n \in 0..MaxThreshold}
Levels == {None} \cup {Some(n) : n \in 0..MaxLevel}

-----------------------------------------------------------------------------
(* get_categorymembers, lines 46-60: the loop over members.values()        *)
IsMainPage(pg) == ns(pg) = MAIN
IsCategoryPage(pg) == ns(pg) # MAIN /\ ns(pg) = CATEGORY

PageMembers(listing) == SelectSeq(listing, IsMainPage)

\* faulty variant: the subcategories collected in reverse listing order
RECURSIVE Reverse(_)
Reverse(s) == IF s = <<>> THEN <<>> ELSE Append(Reverse(Tail(s)), Head(s))
SubcategoryMembersReversed(listing) == Reverse(SelectSeq(listing, IsCategoryPage))

SubcategoryMembers(listing) == SelectSeq(listing, IsCategoryPage)

\* faulty variant: the level test left out
RecursionConditionNoLevel(n_pages, level) ==
    (IsNone(n_pages_per_level_threshold)
       \/ n_pages < Val(n_pages_per_level_threshold))

\* faulty variant: level <= max_level
RecursionConditionLevelLeq(n_pages, level) ==
    /\ (IsNone(n_pages_per_level_threshold)
          \/ n_pages < Val(n_pages_per_level_threshold))
    /\ (IsNone(max_level) \/ level <= Val(max_level))

\* faulty variant: n_pages <= n_pages_per_level_threshold
RecursionConditionPagesLeq(n_pages, level) ==
    /\ (IsNone(n_pages_per_level_threshold)
          \/ n_pages <= Val(n_pages_per_level_threshold))
    /\ (IsNone(max_level) \/ level < Val(max_level))

(* lines 63-67: the condition for recursion                                *)
RecursionCondition(n_pages, level) ==
    /\ (IsNone(n_pages_per_level_threshold)
          \/ n_pages < Val(n_pages_per_level_threshold))
    /\ (IsNone(max_level) \/ level < Val(max_level))

Frame(category, level, path) ==
    [category |-> category, level |-> level, path |-> path,
     subcategories |-> <<>>, n_pages |-> 0, i |-> 1, pc |-> "members"]

Top == stack[Len(stack)]
SetTop(f) == [stack EXCEPT ![Len(stack)] = f]

(* lines 44-67: fetch the members, append the pages, collect the           *)
(* subcategories, decide whether to recurse                                *)
ListMembers ==
    /\ status = "running"
    /\ Top.pc = "members"
    /\ LET listing == members[Top.category]
           new == PageMembers(listing)
           subs == SubcategoryMembers(listing)
       IN  /\ pages' = pages \o new
           /\ fetched' = Append(fetched, Top.path)
           /\ stack' = SetTop([Top EXCEPT
                  !.subcategories = subs,
                  !.n_pages = Len(new),
                  !.pc = IF RecursionCondition(Len(new), Top.level)
                         THEN "recurse" ELSE "return"])
    /\ UNCHANGED <<members, n_pages_per_level_threshold, max_level, status>>
    /\ UNCHANGED <<xvars, fvars>>

\* faulty variant: the loop over the subcategories stops after the first one
CallFirstOnly ==
    /\ status = "running"
    /\ Top.pc = "recurse"
    /\ Top.i <= Len(Top.subcategories)
    /\ Len(stack) < RecursionLimit
    /\ LET cat == Top.subcategories[Top.i]
       IN  stack' = Append(SetTop([Top EXCEPT !.i = Len(Top.subcategories) + 1]),
                           Frame(cat, Top.level + 1, Append(Top.path, cat)))
    /\ UNCHANGED <<members, n_pages_per_level_threshold, max_level, pages,
                   fetched, status>>
    /\ UNCHANGED <<xvars, fvars>>

(* lines 68-76: the recursive call on the next subcategory                 *)
Call ==
    /\ status = "running"
    /\ Top.pc = "recurse"
    /\ Top.i <= Len(Top.subcategories)
    /\ Len(stack) < RecursionLimit
    /\ LET cat == Top.subcategories[Top.i]
       IN  stack' = Append(SetTop([Top EXCEPT !.i = Top.i + 1]),
                           Frame(cat, Top.level + 1, Append(Top.path, cat)))
    /\ UNCHANGED <<members, n_pages_per_level_threshold, max_level, pages,
                   fetched, status>>
    /\ UNCHANGED <<xvars, fvars>>

(* the same call when the interpreter's recursion limit is reached: the     *)
(* RecursionError is not caught and the root call never returns            *)
RaiseRecursionError ==
    /\ status = "running"
    /\ Top.pc = "recurse"
    /\ Top.i <= Len(Top.subcategories)
    /\ Len(stack) >= RecursionLimit
    /\ status' = "RecursionError"
    /\ stack' = <<>>
    /\ UNCHANGED <<members, n_pages_per_level_threshold, max_level, pages,
                   fetched>>
    /\ UNCHANGED <<xvars, fvars>>

(* line 82: return pages                                                   *)
Return ==
    /\ status = "running"
    /\ \/ Top.pc = "return"
       \/ Top.pc = "recurse" /\ Top.i > Len(Top.subcategories)
    /\ stack' = SubSeq(stack, 1, Len(stack) - 1)
    /\ status' = IF Len(stack) = 1 THEN "done" ELSE "running"
    /\ UNCHANGED <<members, n_pages_per_level_threshold, max_level, pages,
                   fetched>>
    /\ UNCHANGED <<xvars, fvars>>

\* the graph as seen from the root: a category no listing leads to is never
\* looked at, and is given no members
Listed(g) ==
    LET sub(c) == {x \in Categories : x \in Range(g[c])}
        one == sub(Root)
        two == one \cup UNION {sub(c) : c \in one}
    IN  two \cup UNION {sub(c) : c \in two}

\* graphs that differ only in which subcategory is called "B" and which "C",
\* or which document "d1" and which "d2", are the same input: the names are
\* given in the order of first appearance, reading the root's listing, then
\* B's, then C's
CanonicalNames(g) ==
    LET reading == g["A"] \o g["B"] \o g["C"]
        FirstAmong(S) ==
            LET at == {i \in DOMAIN reading : reading[i] \in S}
            IN  IF at = {} THEN {}
                ELSE {reading[CHOOSE i \in at : \A j \in at : i <= j]}
    IN  /\ FirstAmong({"B", "C"}) \subseteq {"B"}
        /\ FirstAmong({"d1", "d2"}) \subseteq {"d1"}

(* The root call get_categorymembers(Root, threshold, 0, max_level) with    *)
(* pages=None, on every graph of at most MaxEdges members.                 *)
Init ==
    /\ \E a \in Listings(MaxEdges) :
         \E b \in Listings(MaxEdges - Len(a)) :
           \E c \in Listings(MaxEdges - Len(a) - Len(b)) :
             LET g == [x \in Categories |->
                         IF x = "A" THEN a ELSE IF x = "B" THEN b ELSE c]
             IN  /\ \A x \in Categories \ (Listed(g) \cup {Root}) : g[x] = <<>>
                 /\ CanonicalNames(g)
                 /\ members = g
    /\ n_pages_per_level_threshold \in Thresholds
    /\ max_level \in Levels
    /\ stack = <<Frame(Root, 0, <<Root>>)>>
    /\ pages = <<>>
    /\ fetched = <<>>
    /\ status = "running"
    /\ ExtractIdle
    /\ FilterIdle

Next == ListMembers \/ Call \/ RaiseRecursionError \/ Return

Spec == Init /\ [][Next]_vars

(* The interpreter runs the call chain to its end: some step is always     *)
(* taken while one is possible.                                            *)
FairSpec == Spec /\ WF_vars(Next)

-----------------------------------------------------------------------------
(* Strings the code looks into are sequences of characters.                *)
UpperCase == <<"A", "B", "C", "P">>
LowerCase == <<"a", "b", "c", "p">>

\* str.lower()
LowerChar(c) ==
    IF \E i \in DOMAIN UpperCase : UpperCase[i] = c
    THEN LowerCase[CHOOSE i \in DOMAIN UpperCase : UpperCase[i] = c]
    ELSE c
lower(text) == [i \in DOMAIN text |-> LowerChar(text[i])]

\* sep.join(strs)
RECURSIVE join(_, _)
join(sep, strs) ==
    IF strs = <<>> THEN <<>>
    ELSE IF Len(strs) = 1 THEN strs[1]
    ELSE strs[1] \o <<sep>> \o join(sep, Tail(strs))

\* the branches of a pattern made of literal characters and "|"
RECURSIVE Branches(_)
Branches(pattern) ==
    IF \A i \in DOMAIN pattern : pattern[i] # "|" THEN <<pattern>>
    ELSE LET k == CHOOSE i \in DOMAIN pattern :
                      pattern[i] = "|" /\ \A j \in 1..(i - 1) : pattern[j] # "|"
         IN  <<SubSeq(pattern, 1, k - 1)>>
                 \o Branches(SubSeq(pattern, k + 1, Len(pattern)))

MatchesAt(literal, text, pos) ==
    /\ pos + Len(literal) - 1 <= Len(text)
    /\ \A i \in DOMAIN literal : text[pos + i - 1] = literal[i]

\* bool(re.search(pattern, text)) for such a pattern
re_search(pattern, text) ==
    \E b \in Range(Branches(pattern)) :
        \E pos \in 1..(Len(text) + 1) : MatchesAt(b, text, pos)

(* filter_by_keywords, lines 121-122                                       *)
filter_by_keywords(text, kws) == re_search(join("|", kws), lower(text))

-----------------------------------------------------------------------------
(* Pages and their sections.                                               *)
Plot == <<"P", "l", "o", "t">>
Cast == <<"C", "a", "s", "t">>
plot == <<"p", "l", "o", "t">>
Titles == {Plot, Cast}
Summaries == {"", "S"}
KeywordChoices == {None, Some(<<plot>>)}

\* every list of sections holding n sections in all; a body is empty or
\* names its section (the sections numbered from `before` on)
RECURSIVE SectionLists(_, _)
SectionLists(n, before) ==
    IF n = 0 THEN {<<>>}
    ELSE UNION {
           {<<[title |-> t, text |-> x, sections |-> sub]>> \o rest :
              t \in Titles, x \in {"", ToString(before + 1)},
              sub \in SectionLists(k - 1, before + 1),
              rest \in SectionLists(n - k, before + k)}
           : k \in 1..n}


-----------------------------------------------------------------------------
(* get_page_text, line 106: the test on an outermost section               *)
\* (`or` does not evaluate its second operand when the first holds)
Accepts(s) ==
    IF IsNone(keywords) THEN TRUE
    ELSE filter_by_keywords(s.title, Val(keywords))

\* faulty variant: the subsections of a section without text are not visited
SubsectionsIfText(section) ==
    IF section.text # "" THEN section.sections ELSE <<>>

\* faulty variant: the keyword filter applied to the subsections too
SubsectionsFiltered(section) == SelectSeq(section.sections, Accepts)

(* get_section_text, line 134: the sections the loop runs over             *)
Subsections(section) == section.sections

(* get_section_text, lines 132-133                                         *)
WithSectionText(list, section) ==
    IF section.text # "" THEN Append(list, section.text) ELSE list

\* faulty variant: the summary used whenever use_summary_if_empty is set
SummaryConditionFlagOnly == use_summary_if_empty

\* faulty variant: the summary used whenever no text was collected
SummaryConditionEmptyOnly == Len(page_text) = 0

(* get_page_text, line 113                                                 *)
SummaryCondition == use_summary_if_empty /\ Len(page_text) = 0

SFrame(section, path) ==
    [section |-> section, path |-> path, i |-> 1, pc |-> "text"]
STop == sstack[Len(sstack)]
SetSTop(f) == [sstack EXCEPT ![Len(sstack)] = f]

(* get_page_text, lines 105-106 and 110-111: an outermost section the      *)
(* filter rejects                                                          *)
IgnoreSection ==
    /\ xstatus = "sections"
    /\ s_idx <= Len(page.sections)
    /\ ~Accepts(page.sections[s_idx])
    /\ s_idx' = s_idx + 1
    /\ UNCHANGED <<page, keywords, use_summary_if_empty, page_text,
                   section_text_list, sstack, visited, summary, xstatus>>
    /\ UNCHANGED <<cvars, fvars>>

(* get_page_text, lines 105-109: get_section_text(s) is called on an       *)
(* accepted outermost section, with a fresh list (lines 129-130)           *)
UseSection ==
    /\ xstatus = "sections"
    /\ s_idx <= Len(page.sections)
    /\ Accepts(page.sections[s_idx])
    /\ sstack' = <<SFrame(page.sections[s_idx], <<s_idx>>)>>
    /\ section_text_list' = <<>>
    /\ xstatus' = "in_section"
    /\ UNCHANGED <<page, keywords, use_summary_if_empty, page_text, s_idx,
                   visited, summary>>
    /\ UNCHANGED <<cvars, fvars>>

(* get_section_text, lines 132-133                                         *)
AppendSectionText ==
    /\ xstatus = "in_section"
    /\ STop.pc = "text"
    /\ section_text_list' = WithSectionText(section_text_list, STop.section)
    /\ visited' = Append(visited, STop.path)
    /\ sstack' = SetSTop([STop EXCEPT !.pc = "subsections"])
    /\ UNCHANGED <<page, keywords, use_summary_if_empty, page_text, s_idx,
                   summary, xstatus>>
    /\ UNCHANGED <<cvars, fvars>>

(* get_section_text, lines 134-135: the recursive call on the next         *)
(* subsection, with the same list                                          *)
CallSubsection ==
    /\ xstatus = "in_section"
    /\ STop.pc = "subsections"
    /\ STop.i <= Len(Subsections(STop.section))
    /\ sstack' = Append(SetSTop([STop EXCEPT !.i = STop.i + 1]),
                        SFrame(Subsections(STop.section)[STop.i],
                               Append(STop.path, STop.i)))
    /\ UNCHANGED <<page, keywords, use_summary_if_empty, page_text, s_idx,
                   section_text_list, visited, summary, xstatus>>
    /\ UNCHANGED <<cvars, fvars>>

(* get_section_text, line 137: return; the outermost call returns to       *)
(* get_page_text, line 109: page_text += get_section_text(s)               *)
ReturnSection ==
    /\ xstatus = "in_section"
    /\ STop.pc = "subsections"
    /\ STop.i > Len(Subsections(STop.section))
    /\ sstack' = SubSeq(sstack, 1, Len(sstack) - 1)
    /\ IF Len(sstack) = 1
       THEN /\ page_text' = page_text \o section_text_list
            /\ s_idx' = s_idx + 1
            /\ xstatus' = "sections"
       ELSE UNCHANGED <<page_text, s_idx, xstatus>>
    /\ UNCHANGED <<page, keywords, use_summary_if_empty, section_text_list,
                   visited, summary>>
    /\ UNCHANGED <<cvars, fvars>>

(* get_page_text, lines 113-118: page.summary is read only when it is used *)
ReturnPageText ==
    /\ xstatus = "sections"
    /\ s_idx > Len(page.sections)
    /\ IF SummaryCondition
       THEN \E s \in Summaries :
              /\ summary' = Some(s)
              /\ page_text' = Append(page_text, s)
       ELSE UNCHANGED <<summary, page_text>>
    /\ xstatus' = "done"
    /\ UNCHANGED <<page, keywords, use_summary_if_empty, s_idx,
                   section_text_list, sstack, visited>>
    /\ UNCHANGED <<cvars, fvars>>

(* get_page_text(page, keywords, use_summary_if_empty) on every page of at *)
(* most MaxSections sections.                                              *)
ExtractInit ==
    /\ \E n \in 0..MaxSections :
         IF n = 0 THEN page = [sections |-> <<>>]
         ELSE \E k \in 1..n :
                \E t \in Titles, x \in {"", ToString(1)} :
                  \E sub \in SectionLists(k - 1, 1) :
                    \E rest \in SectionLists(n - k, k) :
                      page = [sections |->
                                <<[title |-> t, text |-> x, sections |-> sub]>>
                                    \o rest]
    /\ keywords \in KeywordChoices
    /\ use_summary_if_empty \in BOOLEAN
    /\ page_text = <<>>
    /\ s_idx = 1
    /\ section_text_list = <<>>
    /\ sstack = <<>>
    /\ visited = <<>>
    /\ summary = None
    /\ xstatus = "sections"
    /\ TraverseIdle
    /\ FilterIdle

ExtractNext ==
    \/ IgnoreSection \/ UseSection \/ AppendSectionText \/ CallSubsection
    \/ ReturnSection \/ ReturnPageText

ExtractSpec == ExtractInit /\ [][ExtractNext]_vars

-----------------------------------------------------------------------------
(* filter_by_keywords(text, keywords) on its own, on every text and every  *)
(* list of one or two keywords over a small alphabet.                      *)
Alphabet == {"a", "A", "b"}
Strings(lo, hi) == UNION {[1..k -> Alphabet] : k \in lo..hi}

CallFilter ==
    /\ f_status = "call"
    /\ f_result' = filter_by_keywords(f_text, f_keywords)
    /\ f_status' = "returned"
    /\ UNCHANGED <<f_text, f_keywords>>
    /\ UNCHANGED <<cvars, xvars>>

FilterInit ==
    /\ f_text \in Strings(0, MaxStrLen)
    /\ \E k1 \in Strings(1, MaxStrLen) :
         \/ f_keywords = <<k1>>
         \/ \E k2 \in Strings(1, MaxStrLen) : f_keywords = <<k1, k2>>
    /\ f_result = FALSE
    /\ f_status = "call"
    /\ TraverseIdle
    /\ ExtractIdle

FilterNext == CallFilter

FilterSpec == FilterInit /\ [][FilterNext]_vars

-----------------------------------------------------------------------------
(* What the claims about get_categorymembers speak of, stated on the graph *)
(* itself.                                                                 *)
IsDocument(pg) == pg \in Documents
IsCategory(pg) == pg \in Categories
DirectDocuments(c) == SelectSeq(members[c], IsDocument)
DirectSubcategories(c) == SelectSeq(members[c], IsCategory)
Last(p) == p[Len(p)]
Parent(p) == SubSeq(p, 1, Len(p) - 1)
Count(x, s) == Cardinality({i \in DOMAIN s : s[i] = x})
PosIn(x, s) == CHOOSE i \in DOMAIN s : s[i] = x

\* the descend condition at the node a path ends in (its depth is Len - 1)
Descends(p) ==
    /\ (n_pages_per_level_threshold = None
          \/ Len(DirectDocuments(Last(p))) < n_pages_per_level_threshold[1])
    /\ (max_level = None \/ Len(p) - 1 < max_level[1])

\* the paths of k categories from the root along which every step was a
\* descent into a listed subcategory
RECURSIVE PathsOfLen(_)
PathsOfLen(k) ==
    IF k = 1 THEN {<<Root>>}
    ELSE {Append(p[1], p[2]) :
            p \in {q \in PathsOfLen(k - 1) \X Categories :
                     /\ Descends(q[1])
                     /\ q[2] \in Range(DirectSubcategories(Last(q[1])))}}

ValidPaths == UNION {PathsOfLen(k) : k \in 1..RecursionLimit}

\* pre-order: a node before its descendants, siblings in listing order
Before(p, q) ==
    \/ Len(p) < Len(q) /\ SubSeq(q, 1, Len(p)) = p
    \/ \E k \in 2..Len(p) :
          /\ k <= Len(q)
          /\ SubSeq(p, 1, k - 1) = SubSeq(q, 1, k - 1)
          /\ p[k] # q[k]
          /\ PosIn(p[k], members[p[k - 1]]) < PosIn(q[k], members[p[k - 1]])

RECURSIVE InPreOrder(_)
InPreOrder(S) ==
    IF S = {} THEN <<>>
    ELSE LET first == CHOOSE p \in S : \A q \in S \ {p} : Before(p, q)
         IN  <<first>> \o InPreOrder(S \ {first})

RECURSIVE DocumentsAlong(_)
DocumentsAlong(paths) ==
    IF paths = <<>> THEN <<>>
    ELSE DirectDocuments(Last(Head(paths))) \o DocumentsAlong(Tail(paths))

Reaches(c, d) ==
    \E p \in UNION {[1..k -> Categories] : k \in 2..(Cardinality(Categories) + 1)} :
        /\ p[1] = c /\ Last(p) = d
        /\ \A k \in 1..(Len(p) - 1) : p[k + 1] \in Range(members[p[k]])
Acyclic == \A c \in Categories : ~Reaches(c, c)

(* C1: on return, pages is the pre-order, documents-before-descent          *)
(* enumeration over the nodes reached by descents only: the direct         *)
(* documents of each such node in listing order, node before its           *)
(* subcategories' subtrees, subcategories in listing order; a document      *)
(* appears once per such path that lists it (no deduplication).            *)
C1_PreOrderResult ==
    status = "done" =>
        /\ pages = DocumentsAlong(InPreOrder(ValidPaths))
        /\ \A d \in Documents :
              Count(d, pages) =
                Cardinality({p \in ValidPaths : d \in Range(members[Last(p)])})

C1_Witness ==
    /\ status = "done"
    /\ Acyclic
    /\ Len(DirectSubcategories(Root)) = 2
    /\ \E i \in DOMAIN members[Root] :
          /\ IsCategory(members[Root][i])
          /\ \E j \in DOMAIN members[Root] : i < j /\ IsDocument(members[Root][j])
    /\ Len(fetched) = 3
    /\ \E d \in Documents : Count(d, pages) = 2


(* C2 as stated: whenever at least one of max_level and                    *)
(* n_pages_per_level_threshold is a finite bound, the root call eventually *)
(* returns, on every graph, cyclic ones included.                          *)
C2_AnyFiniteBoundTerminates ==
    (max_level # None \/ n_pages_per_level_threshold # None)
        => <>(status = "done")

(* C2 amended: the root call eventually returns whenever max_level is a     *)
(* finite bound below the interpreter's recursion limit, or               *)
(* n_pages_per_level_threshold is 0, on every graph, cyclic ones included. *)
C2_DepthBoundTerminates ==
    ((max_level # None /\ max_level[1] < RecursionLimit)
       \/ n_pages_per_level_threshold = Some(0))
        => <>(status = "done")

C2_Witness ==
    /\ status = "done"
    /\ ~Acyclic
    /\ max_level = Some(MaxLevel)
    /\ n_pages_per_level_threshold = None
    /\ \E i, j \in DOMAIN fetched :
          i < j /\ Last(fetched[i]) = Last(fetched[j])

(* C3: with max_level = 0 the children of no subcategory are ever fetched, *)
(* and the root call returns exactly the direct documents of the root, in  *)
(* listing order, whatever the threshold.                                  *)
C3_MaxLevelZero ==
    max_level = Some(0) =>
        /\ \A i \in DOMAIN fetched : fetched[i] = <<Root>>
        /\ status # "RecursionError"
        /\ status = "done" =>
              pages = DirectDocuments(Root) /\ fetched = << <<Root>> >>

C3_Witness ==
    /\ status = "done"
    /\ max_level = Some(0)
    /\ n_pages_per_level_threshold = None
    /\ Len(DirectDocuments(Root)) = 2
    /\ \E c \in Range(DirectSubcategories(Root)) : DirectDocuments(c) # <<>>

(* C4: with n_pages_per_level_threshold = 0 the root call returns exactly   *)
(* the direct documents of the root, whatever max_level, also when the     *)
(* root has no direct document; no subcategory is fetched.                 *)
C4_ThresholdZero ==
    n_pages_per_level_threshold = Some(0) =>
        /\ \A i \in DOMAIN fetched : fetched[i] = <<Root>>
        /\ status # "RecursionError"
        /\ status = "done" =>
              pages = DirectDocuments(Root) /\ fetched = << <<Root>> >>

C4_Witness ==
    /\ status = "done"
    /\ n_pages_per_level_threshold = Some(0)
    /\ max_level = None
    /\ DirectDocuments(Root) = <<>>
    /\ \E c \in Range(DirectSubcategories(Root)) : DirectDocuments(c) # <<>>

(* C10: descent is all-or-nothing and decided once per node from its own   *)
(* direct document count and depth. A category at depth d+1 is fetched     *)
(* only as a listed subcategory of a node at depth d whose descend         *)
(* condition held; no category deeper than max_level is fetched; a frame   *)
(* past its member loop recurses exactly when the condition holds; and on  *)
(* return every subcategory of a node whose condition holds was fetched    *)
(* exactly once, none of a node whose condition fails.                     *)
C10_AllOrNothing ==
    /\ \A i \in DOMAIN fetched :
          LET p == fetched[i]
          IN  /\ max_level # None => Len(p) - 1 <= max_level[1]
              /\ Len(p) > 1 =>
                    /\ Descends(Parent(p))
                    /\ Last(p) \in Range(DirectSubcategories(Last(Parent(p))))
                    /\ \E j \in 1..(i - 1) : fetched[j] = Parent(p)
    /\ \A k \in DOMAIN stack :
          stack[k].pc # "members" =>
              /\ stack[k].n_pages = Len(DirectDocuments(stack[k].category))
              /\ (stack[k].pc = "recurse") <=> Descends(stack[k].path)
    /\ status = "done" =>
          \A i \in DOMAIN fetched :
              \A c \in Range(DirectSubcategories(Last(fetched[i]))) :
                  Count(Append(fetched[i], c), fetched)
                      = IF Descends(fetched[i]) THEN 1 ELSE 0

C10_Witness ==
    /\ status = "done"
    /\ \E i, j \in DOMAIN fetched :
          /\ Descends(fetched[i])
          /\ Len(DirectSubcategories(Last(fetched[i]))) = 2
          /\ ~Descends(fetched[j])
          /\ DirectSubcategories(Last(fetched[j])) # <<>>
          /\ n_pages_per_level_threshold # None
          /\ Len(DirectDocuments(Last(fetched[j])))
                >= n_pages_per_level_threshold[1]
          /\ (max_level = None \/ Len(fetched[j]) - 1 < max_level[1])

-----------------------------------------------------------------------------
(* What the claims about get_page_text speak of, stated on the page        *)
(* itself: a section is named by its path of positions from the top.       *)
RECURSIVE SectionAt(_, _)
SectionAt(list, path) ==
    IF Len(path) = 1 THEN list[path[1]]
    ELSE SectionAt(list[path[1]].sections, Tail(path))

SectionOf(path) == SectionAt(page.sections, path)

RECURSIVE PathsAtDepth(_)
PathsAtDepth(k) ==
    IF k = 1 THEN {<<i>> : i \in DOMAIN page.sections}
    ELSE UNION {{Append(p, i) : i \in DOMAIN SectionOf(p).sections}
                : p \in PathsAtDepth(k - 1)}

AllSections == UNION {PathsAtDepth(k) : k \in 1..MaxSections}

\* depth-first pre-order: a section before its subsections, siblings in order
Precedes(p, q) ==
    \/ Len(p) < Len(q) /\ SubSeq(q, 1, Len(p)) = p
    \/ \E k \in 1..Len(p) :
          /\ k <= Len(q)
          /\ SubSeq(p, 1, k - 1) = SubSeq(q, 1, k - 1)
          /\ p[k] < q[k]

RECURSIVE InDocumentOrder(_)
InDocumentOrder(S) ==
    IF S = {} THEN <<>>
    ELSE LET first == CHOOSE p \in S : \A q \in S \ {p} : Precedes(p, q)
         IN  <<first>> \o InDocumentOrder(S \ {first})

RECURSIVE Bodies(_)
Bodies(paths) ==
    IF paths = <<>> THEN <<>>
    ELSE LET body == SectionOf(Head(paths)).text
         IN  (IF body = "" THEN <<>> ELSE <<body>>) \o Bodies(Tail(paths))

\* what the code's test accepts: some keyword, as given, occurs in the
\* lower-cased title
Occurs(word, text) ==
    \E i \in 1..(Len(text) + 1) :
        \E j \in (i - 1)..Len(text) : SubSeq(text, i, j) = word
TitleMatches(title) ==
    IF keywords = None THEN FALSE
    ELSE \E k \in DOMAIN keywords[1] : Occurs(keywords[1][k], lower(title))
TitleAccepted(title) == keywords = None \/ TitleMatches(title)

AcceptedSections ==
    {p \in AllSections : TitleAccepted(page.sections[p[1]].title)}
Collected == Bodies(InDocumentOrder(AcceptedSections))

(* C5: without a keyword filter get_section_text runs on every section of   *)
(* the page exactly once, in depth-first pre-order, also below sections    *)
(* with an empty body; when some body is non-empty the output is the       *)
(* non-empty bodies in that order, as many as there are such sections.     *)
C5_AllSectionsPreOrder ==
    (xstatus = "done" /\ keywords = None) =>
        /\ visited = InDocumentOrder(AllSections)
        /\ (\E p \in AllSections : SectionOf(p).text # "") =>
              /\ page_text = Bodies(InDocumentOrder(AllSections))
              /\ Len(page_text) =
                   Cardinality({p \in AllSections : SectionOf(p).text # ""})

C5_Witness ==
    /\ xstatus = "done"
    /\ keywords = None
    /\ Len(visited) >= 4
    /\ Len(page_text) >= 2
    /\ \E i \in DOMAIN visited :
          /\ Len(visited[i]) = 3
          /\ SectionOf(visited[i]).text # ""
          /\ SectionOf(Parent(visited[i])).text = ""
    /\ \E i \in DOMAIN visited : visited[i][1] = 2

(* C6: with use_summary_if_empty, when no body was collected from the      *)
(* accepted sections (no section, none accepted, or only empty bodies) the *)
(* output is exactly [page.summary], also when the summary is empty; when  *)
(* a body was collected the summary is not read and the output is the      *)
(* collected bodies, whatever the flag.                                    *)
C6_SummaryFallback ==
    xstatus = "done" =>
        /\ (use_summary_if_empty /\ Collected = <<>>) =>
              summary # None /\ page_text = <<summary[1]>>
        /\ Collected # <<>> => summary = None /\ page_text = Collected

C6_Witness ==
    /\ xstatus = "done"
    /\ use_summary_if_empty
    /\ keywords # None
    /\ summary = Some("")
    /\ page_text = <<"">>
    /\ visited # <<>>
    /\ \E i \in DOMAIN page.sections : ~TitleAccepted(page.sections[i].title)

(* C7: when the filter rejects every outermost section and                  *)
(* use_summary_if_empty is false, nothing is ever emitted: no section is    *)
(* visited, the summary is not read, the output is empty.                  *)
C7_AllExcludedNoFallback ==
    (/\ keywords # None
     /\ ~use_summary_if_empty
     /\ \A i \in DOMAIN page.sections : ~TitleMatches(page.sections[i].title))
        => /\ page_text = <<>>
           /\ visited = <<>>
           /\ summary = None

C7_Witness ==
    /\ xstatus = "done"
    /\ keywords # None
    /\ ~use_summary_if_empty
    /\ Len(page.sections) >= 2
    /\ \A i \in DOMAIN page.sections : ~TitleMatches(page.sections[i].title)
    /\ \E p \in AllSections :
          Len(p) > 1 /\ SectionOf(p).text # "" /\ TitleMatches(SectionOf(p).title)
    /\ page_text = <<>>

(* C8: the filter is applied to outermost titles only. A section is        *)
(* visited exactly when its outermost ancestor was accepted, whatever its  *)
(* own title, and (unless the summary stands in for an empty result) the   *)
(* output is the non-empty bodies of exactly those sections.               *)
C8_FilterTopLevelOnly ==
    /\ \A i \in DOMAIN visited :
          TitleAccepted(page.sections[visited[i][1]].title)
    /\ xstatus = "done" =>
          /\ visited = InDocumentOrder(AcceptedSections)
          /\ (Collected # <<>> \/ ~use_summary_if_empty) => page_text = Collected

C8_Witness ==
    /\ xstatus = "done"
    /\ keywords # None
    /\ \E p, q \in AllSections :
          /\ Len(p) = 2 /\ Len(q) = 2
          /\ ~TitleMatches(page.sections[p[1]].title)
          /\ TitleMatches(SectionOf(p).title)
          /\ SectionOf(p).text # ""
          /\ \A i \in DOMAIN page_text : page_text[i] # SectionOf(p).text
          /\ TitleMatches(page.sections[q[1]].title)
          /\ ~TitleMatches(SectionOf(q).title)
          /\ \E i \in DOMAIN page_text : page_text[i] = SectionOf(q).text

-----------------------------------------------------------------------------
(* Containment of a word in a text, letter case ignored on both sides.     *)
SameLetter(a, b) ==
    \/ a = b
    \/ \E i \in DOMAIN UpperCase :
          {a, b} = {UpperCase[i], LowerCase[i]}
OccursIgnoringCase(word, text) ==
    \E pos \in 1..(Len(text) - Len(word) + 1) :
        \A i \in DOMAIN word : SameLetter(text[pos + i - 1], word[i])

(* C9: with a filter present, a title is accepted exactly when it contains *)
(* at least one of the keywords as a substring, letter case ignored in the *)
(* title and in the keywords alike.                                        *)
C9_CaseInsensitiveSubstring ==
    f_status = "returned" =>
        (f_result <=>
            \E k \in DOMAIN f_keywords : OccursIgnoringCase(f_keywords[k], f_text))

=============================================================================
